---- MODULE Spec2Model ----
(***************************************************************************)
(* Incremental multi-stream change-detection poller of decaxcs/test-api:   *)
(* message_poller.py (v1), message_poller_v2.py (v2), message_poller_v3.py *)
(* (v3) and message_poller_final.py (final).                               *)
(*                                                                         *)
(* Python values are modelled as tagged tuples so that str(), the JSON     *)
(* encoding of the state file and the list/tuple distinction are visible:  *)
(*   <<"str", n>>   the string str(n) of the integer id n                  *)
(*   <<"int", n>>   the integer n itself                                   *)
(*   <<"list", a, b, c>> / <<"tuple", a, b, c>>  a 3-element list / tuple  *)
(* A message (MessageModel) is a record [id, fromUser, text, created].     *)
(* A fetched page is a sequence of messages, newest first.                 *)
(***************************************************************************)
EXTENDS Integers, Sequences, FiniteSets, TLC

VARIABLES
    variant,     \* which of the four poller scripts is running
    stream,      \* [Streams -> 0..MaxId]: number of messages in each remote conversation;
                 \* its messages have the ids 1..stream[s]
    file,        \* the state file poller_state*.json on disk
    mem,         \* self.last_message_ids / self.last_message_info of the running process
    pc,          \* position of the single poller coroutine
    users,       \* the streams enumerated for the current cycle (poll_once local)
    idx,         \* index into users of the stream being processed
    newMsgs,     \* new_messages returned by the last check_user_messages, not yet logged
    saveBy,      \* caller of the save_state in progress or last run: "none","cycle","stop","fatal"
    saveOk,      \* FALSE iff the last save_state call of this process swallowed an I/O error
    stopObserved,\* the loop's except KeyboardInterrupt clause has run
    cyc,         \* history of the current / last cycle: [saves, raised]
    handed,      \* [Streams -> SUBSET Nat]: ids handed to the notifier so far (history)
    seenOk,      \* [Streams -> Int]: stream length at the end of the cycle of its first
                 \* successful fetch; Never before that fetch, Pending until that cycle ends
    arrived,     \* [Streams -> Nat]: items appended since the stream's last successful fetch
    emitted,     \* [Streams -> [new, whole, again]]: ids returned as new so far, ids
                 \* returned by walks that exhausted the page, and whether such a walk
                 \* returned an id that an earlier exhausted walk had returned (history)
    dIn,         \* detection harness: the drawn input of check_user_messages
    dOut         \* detection harness: its result

vars == <<variant, stream, file, mem, pc, users, idx, newMsgs, saveBy, saveOk,
          stopObserved, cyc, handed, seenOk, arrived, emitted, dIn, dOut>>

(***************************************************************************)
(* Bounds of the model.                                                    *)
(***************************************************************************)
MaxId == 3          \* at most this many messages per stream in the polling model
NumStreams == 2     \* number of conversations the enumerator can return
DetMaxId == 4       \* ids 1..DetMaxId occur in the pages drawn for the detection harness
StoreStreams == 1   \* conversations enumerated in the persistence model SpecStore
StoreMaxId == 2     \* messages per conversation in SpecStore
RestartMaxId == 4   \* messages of the conversation in SpecRestart

\* limit=10 of user.get_messages(limit=10), scaled down so that a page can be
\* shorter than the stream within MaxId.
Limit == 2

Variants == {"v1", "v2", "v3", "final"}
Streams == 1..NumStreams
Authors == {"me", "fan"}
TextVals == {"a", "b"}
Never == MaxId + 1
Pending == 0 - 1
NoCycle == [saves |-> 0, raised |-> 0]

(***************************************************************************)
(* Python values.                                                          *)
(***************************************************************************)
Str(n) == <<"str", n>>
IntVal(n) == <<"int", n>>
Empty == [k \in {} |-> <<"none">>]

\* user_id = str(user.id)
UserKeyInt(s) == IntVal(s)
UserKey(s) == Str(s)

PutOnly(info, k, v) == [x \in {k} |-> v]
Put(info, k, v) == [x \in (DOMAIN info) \cup {k} |-> IF x = k THEN v ELSE info[x]]

\* list(reversed(new_messages))
ReverseId(s) == s
Reverse(s) == [i \in 1..Len(s) |-> s[Len(s) + 1 - i]]

\* for message in messages: if str(message.id) == last: break; new.append(message)
WalkAll(messages, last) == messages
RECURSIVE Walk(_, _)
Walk(messages, last) ==
    IF messages = <<>> THEN <<>>
    ELSE IF Str(Head(messages).id) = last THEN <<>>
    ELSE <<Head(messages)>> \o Walk(Tail(messages), last)

\* the same walk keeping only messages whose fromUser is not the operator
RECURSIVE WalkNotMine(_, _)
WalkNotMine(messages, last) ==
    IF messages = <<>> THEN <<>>
    ELSE IF Str(Head(messages).id) = last THEN <<>>
    ELSE (IF Head(messages).fromUser = "me" THEN <<>> ELSE <<Head(messages)>>)
         \o WalkNotMine(Tail(messages), last)

\* [latest_id, latest_text, latest_created] of messages[0]
LatestInfoOldest(messages) ==
    <<"list", Str(messages[Len(messages)].id), messages[Len(messages)].text,
      messages[Len(messages)].created>>
LatestInfo(messages) ==
    <<"list", Str(messages[1].id), messages[1].text, messages[1].created>>

\* the id string held by a checkpoint value of either layout
LastIdOf(v) == IF v[1] = "str" THEN v ELSE v[2]
\* the numeric id a checkpoint value stands for
IdOf(v) == LastIdOf(v)[2]

(***************************************************************************)
(* The state file and its JSON encoding.                                   *)
(***************************************************************************)
NoFile == [st |-> "absent", data |-> Empty]

\* json.dump writes every dictionary key as a string and a tuple as a list
JsonKey(k) == Str(k[2])
JsonVal(v) == IF v[1] = "tuple" THEN <<"list", v[2], v[3], v[4]>> ELSE v
JsonDump(info) ==
    [k \in { JsonKey(x) : x \in DOMAIN info } |->
        JsonVal(info[CHOOSE x \in DOMAIN info : JsonKey(x) = k])]

\* load_state: the mapping of the running process after reading file f;
\* a missing or unparsable file leaves the current mapping
load_stateKeep(f, cur) == cur
load_state(f, cur) == IF f.st = "full" THEN f.data ELSE cur

(***************************************************************************)
(* check_user_messages, after a successful fetch of `messages`.            *)
(* Result: the updated mapping and the returned list.                      *)
(***************************************************************************)
\* if not messages: return []
NoMessagesReset(info) == [mem |-> Empty, new |-> <<>>]
NoMessages(info) == [mem |-> info, new |-> <<>>]

check_user_messages_v1(info, user_id, messages) ==
    IF messages = <<>> THEN NoMessages(info)
    ELSE IF user_id \notin DOMAIN info
         THEN [mem |-> Put(info, user_id, Str(messages[1].id)), new |-> <<>>]
    ELSE [mem |-> Put(info, user_id, Str(messages[1].id)),
          new |-> Reverse(Walk(messages, info[user_id]))]

check_user_messages_v2(info, user_id, messages) ==
    IF messages = <<>> THEN NoMessages(info)
    ELSE IF user_id \notin DOMAIN info
         THEN [mem |-> Put(info, user_id, LatestInfo(messages)), new |-> <<>>]
    ELSE IF Str(messages[1].id) = info[user_id][2]
         THEN [mem |-> info, new |-> <<>>]
    ELSE [mem |-> Put(info, user_id, LatestInfo(messages)),
          new |-> Reverse(Walk(messages, info[user_id][2]))]

check_user_messages_v3(info, user_id, messages) ==
    IF messages = <<>> THEN NoMessages(info)
    ELSE IF user_id \notin DOMAIN info
         THEN [mem |-> Put(info, user_id, LatestInfo(messages)), new |-> <<>>]
    ELSE IF Str(messages[1].id) = info[user_id][2]
         THEN [mem |-> info, new |-> <<>>]
    ELSE [mem |-> Put(info, user_id, LatestInfo(messages)),
          new |-> Reverse(Walk(messages, info[user_id][2]))]

check_user_messages_final(info, user_id, messages) ==
    IF messages = <<>> THEN NoMessages(info)
    ELSE IF user_id \notin DOMAIN info
         THEN [mem |-> Put(info, user_id, LatestInfo(messages)), new |-> <<>>]
    ELSE IF Str(messages[1].id) = info[user_id][2]
         THEN [mem |-> info, new |-> <<>>]
    ELSE [mem |-> Put(info, user_id, LatestInfo(messages)),
          new |-> Reverse(WalkNotMine(messages, info[user_id][2]))]

\* fetched = [raised, messages]: a fetch (or, in v3, the get_user before it)
\* that raises is caught by the function's own except clause: return [].
check_user_messagesForget(v, info, user_id, fetched) ==
    IF fetched.raised THEN [mem |-> Empty, new |-> <<>>]
    ELSE CASE v = "v1" -> check_user_messages_v1(info, user_id, fetched.messages)
           [] v = "v2" -> check_user_messages_v2(info, user_id, fetched.messages)
           [] v = "v3" -> check_user_messages_v3(info, user_id, fetched.messages)
           [] OTHER    -> check_user_messages_final(info, user_id, fetched.messages)
check_user_messages(v, info, user_id, fetched) ==
    IF fetched.raised THEN [mem |-> info, new |-> <<>>]
    ELSE CASE v = "v1" -> check_user_messages_v1(info, user_id, fetched.messages)
           [] v = "v2" -> check_user_messages_v2(info, user_id, fetched.messages)
           [] v = "v3" -> check_user_messages_v3(info, user_id, fetched.messages)
           [] OTHER    -> check_user_messages_final(info, user_id, fetched.messages)

\* the levels of the log records check_user_messages emits on that call
\* (logger.debug / info / warning / error), r being its result
LogLevels(v, info, user_id, fetched, r) ==
    LET first == ~fetched.raised /\ fetched.messages # <<>> /\ user_id \notin DOMAIN info
    IN  CASE v = "v1" ->
                 {"debug"} \cup (IF fetched.raised THEN {"error"} ELSE {})
                           \cup (IF first THEN {"info"} ELSE {})
          [] v \in {"v2", "v3"} ->
                 {"info"} \cup (IF fetched.raised THEN {"error"} ELSE {})
          [] OTHER ->
                 {"debug"} \cup (IF fetched.raised THEN {"error"} ELSE {})
                           \cup (IF r.new # <<>> THEN {"info"} ELSE {})

(***************************************************************************)
(* Detection harness: check_user_messages applied once to a drawn          *)
(* checkpoint mapping and a drawn fetch result.                            *)
(***************************************************************************)
Msg(i, a, t) == [id |-> i, fromUser |-> a, text |-> t, created |-> "t"]

\* the ids of S, newest (largest) first
Desc(S) == CHOOSE f \in [1..Cardinality(S) -> S] :
               \A i, j \in 1..Cardinality(S) : i < j => f[i] > f[j]

\* every newest-first page whose ids are exactly S; the text varies on the
\* head item, the only one whose text the pollers read
PagesOver(S) ==
    { [i \in 1..Cardinality(S) |-> Msg(Desc(S)[i], a[i], IF i = 1 THEN t ELSE "a")] :
          a \in [1..Cardinality(S) -> Authors], t \in TextVals }

DetPages == UNION { PagesOver(S) : S \in SUBSET (1..DetMaxId) }

\* a stored checkpoint for id k in the layout of variant v
CheckpointOf(v, k, t) == IF v = "v1" THEN Str(k) ELSE <<"list", Str(k), t, "t">>

\* the mappings drawn: stream 1 absent or at any id (also above every page
\* id, for stale pages); stream 2 absent or present
DetInfos(v) ==
    LET Mine == {Empty} \cup
                { Put(Empty, UserKey(1), CheckpointOf(v, k, t)) :
                      k \in 1..(DetMaxId + 1), t \in TextVals }
    IN  Mine \cup { Put(m, UserKey(2), CheckpointOf(v, 1, "a")) : m \in Mine }

DetFetches ==
    { [raised |-> FALSE, messages |-> p] : p \in DetPages }
        \cup { [raised |-> TRUE, messages |-> <<>>] }

NoIn == [info |-> Empty, user |-> UserKey(1), fetched |-> [raised |-> TRUE, messages |-> <<>>]]
NoOut == [done |-> FALSE, mem |-> Empty, new |-> <<>>, log |-> {}]

NoEmitted == [s \in Streams |-> [new |-> {}, whole |-> {}, again |-> FALSE]]

\* the poller at rest, for the harness
PollerIdle ==
    /\ stream = [s \in Streams |-> 0]
    /\ file = NoFile
    /\ mem = Empty
    /\ pc = "idle"
    /\ users = <<>>
    /\ idx = 0
    /\ newMsgs = <<>>
    /\ saveBy = "none"
    /\ saveOk = TRUE
    /\ stopObserved = FALSE
    /\ cyc = NoCycle
    /\ handed = [s \in Streams |-> {}]
    /\ seenOk = [s \in Streams |-> Never]
    /\ arrived = [s \in Streams |-> 0]
    /\ emitted = NoEmitted

pollerVars == <<stream, file, mem, pc, users, idx, newMsgs, saveBy, saveOk,
                stopObserved, cyc, handed, seenOk, arrived, emitted>>

InitDetect ==
    /\ variant \in Variants
    /\ PollerIdle
    /\ \E i \in DetInfos(variant), f \in DetFetches :
           dIn = [info |-> i, user |-> UserKey(1), fetched |-> f]
    /\ dOut = NoOut

Detect ==
    /\ ~dOut.done
    /\ LET r == check_user_messages(variant, dIn.info, dIn.user, dIn.fetched)
       IN  dOut' = [done |-> TRUE, mem |-> r.mem, new |-> r.new,
                    log |-> LogLevels(variant, dIn.info, dIn.user, dIn.fetched, r)]
    /\ UNCHANGED <<variant, dIn, pollerVars>>

NextDetect == Detect

SpecDetect == InitDetect /\ [][NextDetect]_vars

\* shorthands over the harness state
DPage == dIn.fetched.messages
DHas == dIn.user \in DOMAIN dIn.info
DLast == IdOf(dIn.info[dIn.user])
DFetched == dOut.done /\ ~dIn.fetched.raised
Ascending(s) == \A a, b \in 1..Len(s) : a < b => s[a].id < s[b].id
IdsOf(s) == { s[i].id : i \in 1..Len(s) }

\* the scenario of the specification: checkpoint 100, page [103,102,101,100,99]
ScenarioPage == [i \in 1..5 |-> Msg(104 - i, "fan", "a")]
ScenarioOk(v) ==
    LET r == check_user_messages(v, Put(Empty, UserKey(1), CheckpointOf(v, 100, "a")),
                                 UserKey(1), [raised |-> FALSE, messages |-> ScenarioPage])
    IN  /\ [i \in 1..Len(r.new) |-> r.new[i].id] = <<101, 102, 103>>
        /\ IdOf(r.mem[UserKey(1)]) = 103

\* C1: with checkpoint k and a fetched newest-first page that contains k,
\* check_user_messages (v1, v2, v3) returns exactly the page items that
\* precede k, oldest first, and the checkpoint becomes the page's head id.
C1_ExactDelta ==
    /\ (DFetched /\ variant # "final" /\ DHas /\ DLast \in IdsOf(DPage)) =>
          LET i == CHOOSE i \in 1..Len(DPage) : DPage[i].id = DLast
          IN  /\ dOut.new = [j \in 1..(i - 1) |-> DPage[i - j]]
              /\ Ascending(dOut.new)
              /\ IdsOf(dOut.new) = { n \in IdsOf(DPage) : n > DLast }
              /\ IdOf(dOut.mem[dIn.user]) = DPage[1].id
    /\ (dOut.done /\ variant # "final") => ScenarioOk(variant)

C1_Witness ==
    /\ DFetched /\ variant = "v1" /\ DHas
    /\ Len(DPage) = 4 /\ DLast = DPage[3].id
    /\ Len(dOut.new) = 2

\* C2: for a stream without a checkpoint and a non-empty fetched page,
\* check_user_messages returns no new items and the checkpoint becomes the
\* id of the page's head item.
C2_Bootstrap ==
    (DFetched /\ ~DHas /\ DPage # <<>>) =>
        /\ dOut.new = <<>>
        /\ dIn.user \in DOMAIN dOut.mem
        /\ IdOf(dOut.mem[dIn.user]) = DPage[1].id

C2_Witness ==
    /\ DFetched /\ ~DHas /\ Len(DPage) = 3
    /\ dOut.new = <<>> /\ IdOf(dOut.mem[dIn.user]) = DPage[1].id

\* C3: when the head id of the fetched page is lower than the stream's
\* lastSeenId, check_user_messages returns no new items and leaves the
\* checkpoint mapping unchanged.
C3_StalePageNoOp ==
    (DFetched /\ DHas /\ DPage # <<>> /\ DPage[1].id < DLast) =>
        /\ dOut.new = <<>>
        /\ dOut.mem = dIn.info

\* C12: when the head id of the fetched page equals the stream's lastSeenId,
\* check_user_messages returns no new items and leaves the whole mapping as
\* it was, the stored text and timestamp of the v2/v3/final layout included.
C12_UnchangedRule ==
    (DFetched /\ DHas /\ DPage # <<>> /\ DPage[1].id = DLast) =>
        /\ dOut.new = <<>>
        /\ dOut.mem = dIn.info

C12_Witness ==
    /\ DFetched /\ DHas /\ variant = "v2"
    /\ Len(DPage) = 3 /\ DPage[1].id = DLast
    /\ DPage[1].text # dIn.info[dIn.user][3]
    /\ dOut.new = <<>> /\ dOut.mem = dIn.info

\* C13: when lastSeenId does not occur in a non-empty fetched page whose head
\* id is greater than lastSeenId, check_user_messages (v1, v2, v3) returns all
\* items of the page, oldest first, sets the checkpoint to the page head, and
\* logs a warning.
C13_ExhaustedWalk ==
    (DFetched /\ variant # "final" /\ DHas /\ DPage # <<>>
              /\ DLast \notin IdsOf(DPage) /\ DPage[1].id > DLast) =>
        /\ dOut.new = [j \in 1..Len(DPage) |-> DPage[Len(DPage) + 1 - j]]
        /\ Ascending(dOut.new)
        /\ IdOf(dOut.mem[dIn.user]) = DPage[1].id
        /\ "warning" \in dOut.log

\* C14: when the fetched page is empty, check_user_messages returns no new
\* items, no exception is raised or caught, and the mapping is left as it
\* was: an existing checkpoint keeps its value and a stream without a
\* checkpoint stays without one.
C14_EmptyPage ==
    (DFetched /\ DPage = <<>>) =>
        /\ dOut.new = <<>>
        /\ dOut.mem = dIn.info
        /\ "error" \notin dOut.log

C14_Witness ==
    /\ DFetched /\ DPage = <<>> /\ variant = "v3"
    /\ DHas /\ DLast = 2 /\ UserKey(2) \in DOMAIN dIn.info
    /\ dOut.new = <<>> /\ dOut.mem = dIn.info

\* C15: for every newest-first page, the list check_user_messages returns,
\* which poll_once hands to the notifier item by item in list order, is in
\* strictly ascending id order, whether the walk found lastSeenId in the page
\* or exhausted the page.
C15_AscendingBatch ==
    DFetched => Ascending(dOut.new)

C15_Witness ==
    /\ DFetched /\ variant = "final" /\ DHas
    /\ DLast \notin IdsOf(DPage) /\ Len(DPage) = 4
    /\ Len(dOut.new) = 3 /\ Ascending(dOut.new)

\* a page of consecutive ids, as a Reader cuts it from an append-only stream
Contiguous(p) == \A i \in 1..(Len(p) - 1) : p[i].id = p[i + 1].id + 1

\* C28: in message_poller_final.py, for a stream with a checkpoint and a
\* non-empty page of consecutive ids, check_user_messages returns exactly the
\* page items whose id is greater than lastSeenId and whose author is not the
\* operator, in ascending id order, and the checkpoint becomes the page head,
\* also when the returned list is empty.
C28_FinalFilter ==
    (DFetched /\ variant = "final" /\ DHas /\ DPage # <<>> /\ Contiguous(DPage)) =>
        /\ IdsOf(dOut.new) =
              { DPage[i].id : i \in { j \in 1..Len(DPage) :
                                        DPage[j].id > DLast /\ DPage[j].fromUser # "me" } }
        /\ Ascending(dOut.new)
        /\ IdOf(dOut.mem[dIn.user]) = DPage[1].id

\* the mapping info with every checkpoint rewritten in the layout of variant w
InfoAs(w, info) == [k \in DOMAIN info |-> CheckpointOf(w, IdOf(info[k]), "a")]

\* C29: for every checkpoint state and every fetched page, the result of
\* message_poller.py's check_user_messages agrees with what
\* message_poller_v2.py and message_poller_v3.py compute from the same
\* checkpoint and page: the same list of new items, and the same last-seen
\* id for the stream (or no checkpoint in both).
C29_VariantsAgree ==
    (dOut.done /\ variant = "v1") =>
        \A w \in {"v2", "v3"} :
            LET r == check_user_messages(w, InfoAs(w, dIn.info), dIn.user, dIn.fetched)
            IN  /\ r.new = dOut.new
                /\ (dIn.user \in DOMAIN r.mem) = (dIn.user \in DOMAIN dOut.mem)
                /\ dIn.user \in DOMAIN r.mem
                      => IdOf(r.mem[dIn.user]) = IdOf(dOut.mem[dIn.user])

C29_Witness ==
    /\ DFetched /\ variant = "v1" /\ DHas
    /\ Len(DPage) = 3 /\ DLast \notin IdsOf(DPage)
    /\ Len(dOut.new) = 3 /\ IdOf(dOut.mem[dIn.user]) = DPage[1].id

\* C30: check_user_messages for one stream changes at most that stream's
\* entry of the mapping: every other stream's checkpoint is still there with
\* the same value, and no entry for another stream appears.
C30_OtherStreamsUntouched ==
    dOut.done =>
        /\ DOMAIN dOut.mem \subseteq (DOMAIN dIn.info) \cup {dIn.user}
        /\ \A k \in (DOMAIN dIn.info) \ {dIn.user} :
               k \in DOMAIN dOut.mem /\ dOut.mem[k] = dIn.info[k]

C30_Witness ==
    /\ DFetched /\ variant = "v3" /\ DHas
    /\ UserKey(2) \in DOMAIN dIn.info
    /\ Len(dOut.new) = 2
    /\ dOut.mem[dIn.user] # dIn.info[dIn.user]
    /\ dOut.mem[UserKey(2)] = dIn.info[UserKey(2)]

(***************************************************************************)
(* The polling process: run(), poll_once(), save_state() step by step,     *)
(* with the remote streams, the Reader, stop signals, kills and restarts.  *)
(***************************************************************************)
Min(a, b) == IF a < b THEN a ELSE b
Unbudgeted == MaxId + 1

\* who wrote message i of stream s (the operator or the fan)
AuthorOf(s, i) == IF (s + i) % 2 = 0 THEN "me" ELSE "fan"

\* user.get_messages(limit): the l newest messages of the snapshot whose head is h
Page(s, h, l) == [i \in 1..l |-> Msg(h - i + 1, AuthorOf(s, h - i + 1), "a")]
Fetched(p) == [raised |-> FALSE, messages |-> p]
Raised == [raised |-> TRUE, messages |-> <<>>]

\* the true newest page
FreshFetch(s) == { Fetched(Page(s, stream[s], Min(Limit, stream[s]))) }
\* every answer of the Reader: the true page, a stale snapshot (h below the
\* true head), a short or empty page, or an exception
Fetches(s) ==
    { Fetched(Page(s, h, Min(l, h))) : h \in 0..stream[s], l \in 0..Limit } \cup {Raised}
RaisedOnly == {Raised}

\* get_chat_users / the enumeration at the head of poll_once: the streams in
\* enumeration order; <<>> also stands for an enumeration that raised
EnumLists ==
    { us \in UNION { [1..n -> Streams] : n \in 1..NumStreams } :
          \A i, j \in DOMAIN us : i < j => us[i] < us[j] }
AllStreams == [i \in 1..NumStreams |-> i]

hist == <<handed, seenOk, arrived, emitted>>
det == <<dIn, dOut>>
\* where save_state returns to: poll_once (then the sleep of the loop), or the
\* except clauses of run(), after which run() ends
AfterSaveLoop(by) == "sleep"
AfterSave(by) == IF by = "cycle" THEN "sleep" ELSE "exited"
SaveReturned(ok) ==
    /\ saveOk' = ok
    /\ cyc' = IF saveBy = "cycle" THEN [cyc EXCEPT !.saves = @ + 1] ELSE cyc
    /\ pc' = AfterSave(saveBy)

Init ==
    /\ variant \in Variants
    /\ stream = [s \in Streams |-> 0]
    /\ file = NoFile
    /\ mem = Empty
    /\ pc = "init"
    /\ users = <<>>
    /\ idx = 0
    /\ newMsgs = <<>>
    /\ saveBy = "none"
    /\ saveOk = TRUE
    /\ stopObserved = FALSE
    /\ cyc = NoCycle
    /\ handed = [s \in Streams |-> {}]
    /\ seenOk = [s \in Streams |-> Never]
    /\ arrived = [s \in Streams |-> 0]
    /\ emitted = NoEmitted
    /\ dIn = NoIn
    /\ dOut = NoOut

\* run(): auth.json is read and the API object built
RunStartOk ==
    /\ pc = "init"
    /\ pc' = "load"
    /\ UNCHANGED <<variant, stream, file, mem, users, idx, newMsgs, saveBy, saveOk,
                   stopObserved, cyc, hist, det>>

\* run(): auth.json missing or unparsable, or the API constructor raises:
\* except Exception: save_state(); raise
RunStartFail ==
    /\ pc = "init"
    /\ pc' = "save_open"
    /\ saveBy' = "fatal"
    /\ UNCHANGED <<variant, stream, file, mem, users, idx, newMsgs, saveOk,
                   stopObserved, cyc, hist, det>>

LoadState ==
    /\ pc = "load"
    /\ mem' = load_state(file, mem)
    /\ pc' = "login"
    /\ UNCHANGED <<variant, stream, file, users, idx, newMsgs, saveBy, saveOk,
                   stopObserved, cyc, hist, det>>

LoginOk ==
    /\ pc = "login"
    /\ pc' = "cycle"
    /\ UNCHANGED <<variant, stream, file, mem, users, idx, newMsgs, saveBy, saveOk,
                   stopObserved, cyc, hist, det>>

\* login fails: raise Exception("Failed to authenticate"), caught by run()
LoginFail ==
    /\ pc = "login"
    /\ pc' = "save_open"
    /\ saveBy' = "fatal"
    /\ UNCHANGED <<variant, stream, file, mem, users, idx, newMsgs, saveOk,
                   stopObserved, cyc, hist, det>>

\* poll_once, up to the for loop: with no users it returns before save_state
EnumerateOf(lists) ==
    /\ pc = "cycle"
    /\ \E us \in lists :
          /\ users' = us
          /\ idx' = IF us = <<>> THEN 0 ELSE 1
          /\ pc' = IF us = <<>> THEN "sleep" ELSE "check"
    /\ cyc' = NoCycle
    /\ UNCHANGED <<variant, stream, file, mem, newMsgs, saveBy, saveOk,
                   stopObserved, hist, det>>

\* the walk of check_user_messages reaches the end of a non-empty page without
\* meeting the checkpoint
Exhausted(info, user_id, messages) ==
    /\ user_id \in DOMAIN info
    /\ messages # <<>>
    /\ \A i \in 1..Len(messages) : messages[i].id # IdOf(info[user_id])

\* the history of returned ids after a detection that returned the list new
Emit(e, info, user_id, messages, new) ==
    LET ids == { new[i].id : i \in 1..Len(new) }
        ex == Exhausted(info, user_id, messages)
    IN  [new |-> e.new \cup ids,
         whole |-> IF ex THEN e.whole \cup ids ELSE e.whole,
         again |-> e.again \/ (ex /\ Len(new) = Len(messages) /\ ids \cap e.whole # {})]

\* new_messages = await self.check_user_messages(user), for the given answers
\* of the Reader; track: record the history variables of normal operation;
\* rec: record the detection (dIn, dOut) and the ids it returned (emitted)
CheckOf(s, answers, track, rec) ==
    /\ pc = "check"
    /\ users[idx] = s
    /\ \E f \in answers :
          LET r == check_user_messages(variant, mem, UserKey(s), f)
          IN  /\ mem' = r.mem
              /\ newMsgs' = r.new
              /\ pc' = IF r.new = <<>> THEN "delay" ELSE "notify"
              /\ cyc' = [cyc EXCEPT !.raised = IF f.raised /\ @ = 0 THEN idx ELSE @]
              /\ IF track /\ ~f.raised
                 THEN /\ arrived' = [arrived EXCEPT ![s] = 0]
                      /\ seenOk' = [seenOk EXCEPT ![s] = IF @ = Never THEN Pending ELSE @]
                 ELSE UNCHANGED <<arrived, seenOk>>
              /\ IF rec
                 THEN /\ dIn' = [info |-> mem, user |-> UserKey(s), fetched |-> f]
                      /\ dOut' = [done |-> TRUE, mem |-> r.mem, new |-> r.new,
                                   log |-> LogLevels(variant, mem, UserKey(s), f, r)]
                      /\ emitted' = [emitted EXCEPT
                                        ![s] = Emit(@, mem, UserKey(s), f.messages, r.new)]
                 ELSE UNCHANGED <<emitted, det>>
    /\ UNCHANGED <<variant, stream, file, users, idx, saveBy, saveOk,
                   stopObserved, handed>>

\* if new_messages: ... for message in new_messages: logger.info(format(..))
NotifyOf(track) ==
    /\ pc = "notify"
    /\ handed' = IF track
                 THEN [handed EXCEPT ![users[idx]] = @ \cup IdsOf(newMsgs)]
                 ELSE handed
    /\ newMsgs' = <<>>
    /\ pc' = "delay"
    /\ UNCHANGED <<variant, stream, file, mem, users, idx, saveBy, saveOk,
                   stopObserved, cyc, seenOk, arrived, emitted, det>>

\* v3 only: user = await authed_user.get_user(username) returns None:
\* the new messages are not logged
NotifyNoUser ==
    /\ pc = "notify"
    /\ variant = "v3"
    /\ newMsgs' = <<>>
    /\ pc' = "delay"
    /\ UNCHANGED <<variant, stream, file, mem, users, idx, saveBy, saveOk,
                   stopObserved, cyc, hist, det>>

\* v3 only: that get_user raises, outside any per-stream try: poll_once's
\* except clause ends the cycle, without the remaining streams and save_state
NotifyRaiseFatal ==
    /\ pc = "notify"
    /\ variant = "v3"
    /\ newMsgs' = <<>>
    /\ pc' = "save_open"
    /\ saveBy' = "fatal"
    /\ UNCHANGED <<variant, stream, file, mem, users, idx, saveOk,
                   stopObserved, cyc, hist, det>>
NotifyRaise ==
    /\ pc = "notify"
    /\ variant = "v3"
    /\ newMsgs' = <<>>
    /\ pc' = "sleep"
    /\ cyc' = [cyc EXCEPT !.raised = IF @ = 0 THEN idx ELSE @]
    /\ UNCHANGED <<variant, stream, file, mem, users, idx, saveBy, saveOk,
                   stopObserved, hist, det>>

\* await asyncio.sleep(1), then the next user, or save_state after the last
Delay ==
    /\ pc = "delay"
    /\ IF idx < Len(users)
       THEN /\ idx' = idx + 1
            /\ pc' = "check"
            /\ UNCHANGED saveBy
       ELSE /\ pc' = "save_open"
            /\ saveBy' = "cycle"
            /\ UNCHANGED idx
    /\ UNCHANGED <<variant, stream, file, mem, users, newMsgs, saveOk,
                   stopObserved, cyc, hist, det>>

\* save_state: open(self.state_file, 'w') truncates the file
SaveOpenOk ==
    /\ pc = "save_open"
    /\ file' = [st |-> "empty", data |-> Empty]
    /\ pc' = "save_write"
    /\ UNCHANGED <<variant, stream, mem, users, idx, newMsgs, saveBy, saveOk,
                   stopObserved, cyc, hist, det>>

\* save_state: open raises (permissions); the error is logged and swallowed
SaveOpenFail ==
    /\ pc = "save_open"
    /\ SaveReturned(FALSE)
    /\ UNCHANGED <<variant, stream, file, mem, users, idx, newMsgs, saveBy,
                   stopObserved, hist, det>>

\* save_state: json.dump(self.last_message_*, f) and the close of the file
SaveWriteOf(track) ==
    /\ pc = "save_write"
    /\ file' = [st |-> "full", data |-> JsonDump(mem)]
    /\ SaveReturned(TRUE)
    /\ seenOk' = IF track /\ saveBy = "cycle"
                 THEN [s \in Streams |-> IF seenOk[s] = Pending THEN stream[s] ELSE seenOk[s]]
                 ELSE seenOk
    /\ UNCHANGED <<variant, stream, mem, users, idx, newMsgs, saveBy,
                   stopObserved, handed, arrived, emitted, det>>

\* save_state: the write raises (disk full) after the truncation; swallowed
SaveWriteFail ==
    /\ pc = "save_write"
    /\ \E st \in {"empty", "partial"} : file' = [st |-> st, data |-> Empty]
    /\ SaveReturned(FALSE)
    /\ UNCHANGED <<variant, stream, mem, users, idx, newMsgs, saveBy,
                   stopObserved, hist, det>>

\* await asyncio.sleep(self.check_interval), then the next poll_once
Sleep ==
    /\ pc = "sleep"
    /\ pc' = "cycle"
    /\ UNCHANGED <<variant, stream, file, mem, users, idx, newMsgs, saveBy, saveOk,
                   stopObserved, cyc, hist, det>>

InLoop ==
    \/ pc \in {"cycle", "check", "notify", "delay", "sleep"}
    \/ pc \in {"save_open", "save_write"} /\ saveBy = "cycle"

\* a write cut short leaves the truncated file, or a prefix of the document
CutWrite(f) ==
    IF pc = "save_write"
    THEN { [st |-> st, data |-> Empty] : st \in {"empty", "partial"} }
    ELSE {f}

\* KeyboardInterrupt reaches the while loop of run():
\* except KeyboardInterrupt: self.save_state()
Stop ==
    /\ InLoop
    /\ ~stopObserved
    /\ stopObserved' = TRUE
    /\ file' \in CutWrite(file)
    /\ newMsgs' = <<>>
    /\ pc' = "save_open"
    /\ saveBy' = "stop"
    /\ UNCHANGED <<variant, stream, mem, users, idx, saveOk, cyc, hist, det>>

\* the process is killed
Crash ==
    /\ pc \notin {"dead", "exited", "idle"}
    /\ file' \in CutWrite(file)
    /\ pc' = "dead"
    /\ mem' = Empty
    /\ users' = <<>>
    /\ idx' = 0
    /\ newMsgs' = <<>>
    /\ saveBy' = "none"
    /\ saveOk' = TRUE
    /\ stopObserved' = FALSE
    /\ cyc' = NoCycle
    /\ UNCHANGED <<variant, stream, hist, det>>

\* main(): a new poller object; with --reset the state file is unlinked first
RestartOf(reset) ==
    /\ pc \in {"dead", "exited"}
    /\ file' = IF reset THEN NoFile ELSE file
    /\ pc' = "init"
    /\ mem' = Empty
    /\ users' = <<>>
    /\ idx' = 0
    /\ newMsgs' = <<>>
    /\ saveBy' = "none"
    /\ saveOk' = TRUE
    /\ stopObserved' = FALSE
    /\ cyc' = NoCycle
    /\ UNCHANGED <<variant, stream, hist, det>>

\* the remote service appends a message to stream s
AppendOf(s, budget) ==
    /\ stream[s] < MaxId
    /\ seenOk[s] = Never \/ arrived[s] < budget
    /\ stream' = [stream EXCEPT ![s] = @ + 1]
    /\ arrived' = IF budget = Unbudgeted \/ seenOk[s] = Never
                  THEN arrived
                  ELSE [arrived EXCEPT ![s] = @ + 1]
    /\ UNCHANGED <<variant, file, mem, pc, users, idx, newMsgs, saveBy, saveOk,
                   stopObserved, cyc, handed, seenOk, emitted, det>>

Enumerate == EnumerateOf(EnumLists \cup {<<>>})
CheckUserMessages == \E s \in Streams : CheckOf(s, Fetches(s), FALSE, FALSE)
Notify == NotifyOf(FALSE)
SaveWriteOk == SaveWriteOf(FALSE)
Restart == RestartOf(FALSE)
RestartReset == RestartOf(TRUE)
AppendMessage == \E s \in Streams : AppendOf(s, Unbudgeted)

Next ==
    \/ RunStartOk \/ RunStartFail \/ LoadState \/ LoginOk \/ LoginFail
    \/ Enumerate \/ CheckUserMessages
    \/ Notify \/ NotifyNoUser \/ NotifyRaise \/ Delay
    \/ SaveOpenOk \/ SaveOpenFail \/ SaveWriteOk \/ SaveWriteFail
    \/ Sleep \/ Stop \/ Crash \/ Restart \/ RestartReset \/ AppendMessage

Spec == Init /\ [][Next]_vars

\* C4: across polling cycles, with fresh, stale and short pages from a
\* correctly ordered Reader, a stream's lastSeenId, once set, never decreases.
C4_NoRegression ==
    [][\A s \in Streams :
          (UserKey(s) \in DOMAIN mem /\ UserKey(s) \in DOMAIN mem')
              => IdOf(mem'[UserKey(s)]) >= IdOf(mem[UserKey(s)])]_vars

\* C6: in a polling cycle in which fetching or detecting for a stream raised,
\* every stream enumerated after it has been fetched and checked when the
\* cycle ends.
C6_FailureIsolation ==
    (pc = "sleep" /\ cyc.raised # 0) => idx = Len(users)

\* C7: every polling cycle that enumerated streams calls save_state exactly
\* once, after the last enumerated stream has been processed and before the
\* inter-cycle sleep, whether or not a stream produced items or failed.
C7_FlushOncePerCycle ==
    /\ (pc = "sleep" /\ users # <<>>) => cyc.saves = 1
    /\ (pc \in {"save_open", "save_write"} /\ saveBy = "cycle")
          => (idx = Len(users) /\ cyc.saves = 0)

\* C9: at every instant the state file holds a complete mapping (the one
\* saved before or the new one), never an empty or partial document.
C9_AtomicSave ==
    file.st \in {"absent", "full"}

\* C21: the notification step of a stream (the lookup of the user for
\* formatting in v3, the formatting and the logging of each new item), whether
\* it fails or not, leaves the checkpoint mapping unchanged and is followed by
\* the inter-stream delay, hence by the remaining streams and the cycle's
\* save_state.
C21_SinkFailureIsolated ==
    [][(pc = "notify" /\ pc' \notin {"notify", "dead"} /\ ~stopObserved')
          => (mem' = mem /\ pc' = "delay")]_vars

\* C11: the loop never observes a stop signal while a stream's fetch is in
\* progress (the call of check_user_messages has not returned): the fetch,
\* the detection and the checkpoint update complete first.
C11_StopNotMidFetch ==
    [][(~stopObserved /\ stopObserved') => pc # "check"]_vars


(***************************************************************************)
(* Malformed items: check_user_messages applied to a page one of whose     *)
(* items has no id.  MessageModel takes its id from the API dictionary     *)
(* through SiteContent: the attribute is then None (str(message.id) is the *)
(* string 'None'), or missing (str(message.id) raises AttributeError).     *)
(***************************************************************************)
NoId == 0
NoIdModes == {"None", "AttributeError"}

\* the page p with the id of its b-th item missing
Malform(p, b) == [i \in 1..Len(p) |-> IF i = b THEN [p[i] EXCEPT !.id = NoId] ELSE p[i]]

\* the function evaluates str(.id) of an item without id: messages[0] always,
\* a later item when the walk gets to it before it finds the checkpoint
ReachesNoId(info, user_id, messages) ==
    \/ messages[1].id = NoId
    \/ /\ user_id \in DOMAIN info
       /\ \E b \in 1..Len(messages) :
              /\ messages[b].id = NoId
              /\ \A j \in 1..(b - 1) : Str(messages[j].id) # LastIdOf(info[user_id])

\* an AttributeError is caught by the function's except clause like a failed
\* fetch: the mapping is not updated and [] is returned
check_malformed(v, info, user_id, fetched, mode) ==
    IF mode = "AttributeError" /\ ReachesNoId(info, user_id, fetched.messages)
    THEN check_user_messages(v, info, user_id, Raised)
    ELSE check_user_messages(v, info, user_id, fetched)

InitMalformed ==
    /\ variant \in Variants
    /\ PollerIdle
    /\ \E i \in DetInfos(variant), p \in DetPages \ {<<>>}, m \in NoIdModes :
          \E b \in 1..Len(p) :
             dIn = [info |-> i, user |-> UserKey(1), fetched |-> Fetched(Malform(p, b)),
                    noid |-> m]
    /\ dOut = NoOut

DetectMalformed ==
    /\ ~dOut.done
    /\ LET r == check_malformed(variant, dIn.info, dIn.user, dIn.fetched, dIn.noid)
       IN  dOut' = [done |-> TRUE, mem |-> r.mem, new |-> r.new,
                    log |-> LogLevels(variant, dIn.info, dIn.user,
                               IF dIn.noid = "AttributeError"
                                  /\ ReachesNoId(dIn.info, dIn.user, dIn.fetched.messages)
                               THEN Raised ELSE dIn.fetched, r)]
    /\ UNCHANGED <<variant, dIn, pollerVars>>

NextMalformed == DetectMalformed

SpecMalformed == InitMalformed /\ [][NextMalformed]_vars

\* C18: when one item of the fetched page has no id and the page contains
\* the checkpoint, check_user_messages (v1, v2, v3) returns exactly the other
\* items that precede the checkpoint: the item without id is skipped and the
\* rest is still reported.
C18_SkipMalformed ==
    (dOut.done /\ variant # "final" /\ DHas /\ DLast \in IdsOf(DPage)) =>
        LET i == CHOOSE i \in 1..Len(DPage) : DPage[i].id = DLast
        IN  IdsOf(dOut.new) = { DPage[j].id : j \in 1..(i - 1) } \ {NoId}

(***************************************************************************)
(* The persistence model: the same process, watching the conversations     *)
(* 1..StoreStreams of at most StoreMaxId messages each.                    *)
(***************************************************************************)
StoreLists ==
    { us \in UNION { [1..n -> 1..StoreStreams] : n \in 1..StoreStreams } :
          \A i, j \in DOMAIN us : i < j => us[i] < us[j] }

EnumerateStore == EnumerateOf(StoreLists \cup {<<>>})
AppendStore ==
    \E s \in 1..StoreStreams : stream[s] < StoreMaxId /\ AppendOf(s, Unbudgeted)

NextStore ==
    \/ RunStartOk \/ RunStartFail \/ LoadState \/ LoginOk \/ LoginFail
    \/ EnumerateStore \/ CheckUserMessages
    \/ Notify \/ NotifyNoUser \/ NotifyRaise \/ Delay
    \/ SaveOpenOk \/ SaveOpenFail \/ SaveWriteOk \/ SaveWriteFail
    \/ Sleep \/ Stop \/ Crash \/ Restart \/ RestartReset \/ AppendStore

SpecStore == Init /\ [][NextStore]_vars

\* C8: when a polling cycle of message_poller.py or message_poller_v2.py has
\* completed (and its save_state met no I/O error), load_state of a restarted
\* process yields exactly the in-memory mapping at the end of that cycle.
C8_Durability ==
    (pc = "sleep" /\ variant \in {"v1", "v2"} /\ saveOk)
        => load_state(file, Empty) = mem

C8_Witness ==
    /\ pc = "sleep" /\ variant = "v2" /\ saveOk /\ saveBy = "cycle"
    /\ cyc.saves = 1
    /\ UserKey(1) \in DOMAIN mem /\ IdOf(mem[UserKey(1)]) >= 2
    /\ file.st = "full" /\ file.data = mem

\* C10: once the loop has observed a stop signal, the poller only runs
\* save_state on the current mapping and exits: it starts no further cycle,
\* and when it has exited (the write having met no I/O error) the state file
\* holds exactly the in-memory mapping.
C10_StopFlushesAndExits ==
    /\ stopObserved => (pc \in {"save_open", "save_write", "exited"} /\ saveBy = "stop")
    /\ (stopObserved /\ pc = "exited" /\ saveOk)
          => file = [st |-> "full", data |-> JsonDump(mem)]

C10_Witness ==
    /\ stopObserved /\ pc = "exited" /\ saveOk
    /\ mem # Empty /\ file.data = mem
    /\ users # <<>> /\ cyc.saves = 0

\* C16: when load_state has returned (run() is at the login), the mapping is
\* empty if the state file is missing or unparsable (empty or cut short), and
\* exactly the mapping stored in the file otherwise.
C16_LoadFailsSoft ==
    pc = "login" => mem = (IF file.st = "full" THEN file.data ELSE Empty)

C16_Witness ==
    /\ pc = "login" /\ variant = "v2"
    /\ file.st = "full" /\ file.data # Empty /\ mem = file.data

\* C17: the polling loop, once entered, is left only by an observed stop
\* signal (or the kill of the process): after a failed enumeration, a fetch
\* that raised, a notification that raised or a failed save, the poller is
\* still in the loop, on its way to the sleep and the next cycle.
C17_OnlyStopExits ==
    [][(InLoop /\ ~InLoop') => (stopObserved' \/ pc' = "dead")]_vars

C17_Witness ==
    /\ pc = "cycle" /\ ~stopObserved
    /\ cyc.raised # 0 /\ ~saveOk /\ saveBy = "cycle"

\* C19: within a cycle every position of the enumerated list is fetched at
\* most once (a fetch is started only for the first stream of a new cycle or
\* for the stream after the one just processed); a fetch that raises hands
\* nothing to the notifier, leaves the mapping unchanged and is not repeated
\* in that cycle.
C19_NoRetryInCycle ==
    [][/\ (pc' = "check" /\ (pc # "check" \/ idx' # idx))
             => \/ pc = "cycle" /\ idx' = 1
                \/ pc = "delay" /\ idx' = idx + 1
       /\ (pc = "check" /\ cyc.raised = 0 /\ cyc'.raised = idx)
             => (mem' = mem /\ newMsgs' = <<>> /\ pc' = "delay" /\ idx' = idx)]_vars

C19_Witness ==
    /\ pc = "delay" /\ cyc.raised = idx /\ newMsgs = <<>>
    /\ UserKey(users[idx]) \in DOMAIN mem
    /\ IdOf(mem[UserKey(users[idx])]) < stream[users[idx]]

\* C20: when the save_state of a cycle fails (open or write), the error is
\* swallowed: the mapping in memory is unchanged and the loop goes on to its
\* sleep; inside the loop the mapping changes only through
\* check_user_messages, never by a reload; a save_state write that completes
\* stores the mapping of that moment; and the cycle after a failed save calls
\* save_state again (no cycle ends without a save_state call while the last
\* call failed and the file does not hold the mapping).
C20_SaveFailureRetried ==
    [][/\ (pc \in {"save_open", "save_write"} /\ saveBy = "cycle"
              /\ cyc'.saves = cyc.saves + 1 /\ ~saveOk')
             => (mem' = mem /\ pc' = "sleep")
       /\ (InLoop /\ InLoop' /\ pc # "check") => mem' = mem
       /\ (pc = "save_write" /\ file'.st = "full")
             => (file'.data = JsonDump(mem) /\ saveOk')
       /\ (pc' = "sleep" /\ ~saveOk' /\ load_state(file', Empty) # mem')
             => cyc'.saves = 1]_vars

\* C22: a running poller never removes a stream id from the mapping in memory
\* and changes only the checkpoint of the stream being checked; a save_state
\* write that completes stores every id of the mapping; and whenever
\* save_state is about to rewrite a state file that holds a complete mapping,
\* the mapping in memory has every stream id stored in the file (so that only
\* the deletion of the file by --reset removes a checkpoint).
C22_NoCheckpointRemoved ==
    [][/\ (pc \notin {"dead", "exited"} /\ pc' # "dead")
             => \A k \in DOMAIN mem :
                    /\ k \in DOMAIN mem'
                    /\ (pc = "check" /\ k = UserKey(users[idx])) \/ mem'[k] = mem[k]
       /\ (pc = "save_write" /\ file'.st = "full")
             => DOMAIN file'.data = DOMAIN mem
       /\ (pc' = "save_open" /\ file'.st = "full")
             => DOMAIN file'.data \subseteq DOMAIN mem']_vars

\* C23: when run() fails before the polling loop (auth.json, the API
\* constructor, the login) and its except clause calls save_state, the
\* mapping written over a state file that holds checkpoints is the mapping
\* stored in that file.
C23_StartupFailureKeepsFile ==
    [][(pc = "save_open" /\ saveBy = "fatal" /\ file.st = "full" /\ file' # file)
          => file.data = JsonDump(mem)]_vars

(***************************************************************************)
(* Normal operation: the enumerator lists every stream or fails, the       *)
(* Reader returns the true newest page or raises, fewer than Limit         *)
(* messages arrive between two successful fetches of a stream, and no      *)
(* stop, kill or I/O error occurs.  Failed enumerations and failed fetches *)
(* are eventually followed by successful ones.                             *)
(***************************************************************************)
InitNormal == Init /\ variant \in {"v1", "v2"}

EnumerateAll == EnumerateOf({AllStreams})
EnumerateNone == EnumerateOf({<<>>})
CheckFresh(s) == CheckOf(s, FreshFetch(s), TRUE, FALSE)
CheckRaised(s) == CheckOf(s, RaisedOnly, TRUE, FALSE)
NotifyTracked == NotifyOf(TRUE)
SaveWriteTracked == SaveWriteOf(TRUE)
AppendBudgeted == \E s \in Streams : AppendOf(s, Limit - 1)

PollerNormal ==
    \/ RunStartOk \/ LoadState \/ LoginOk
    \/ EnumerateAll \/ EnumerateNone
    \/ (\E s \in Streams : CheckFresh(s))
    \/ (\E s \in Streams : CheckRaised(s))
    \/ NotifyTracked \/ Delay
    \/ SaveOpenOk \/ SaveWriteTracked \/ Sleep

NextNormal == PollerNormal \/ AppendBudgeted

FairNormal ==
    /\ WF_vars(PollerNormal)
    /\ SF_vars(EnumerateAll)
    /\ \A s \in Streams : SF_vars(CheckFresh(s))

SpecNormal == InitNormal /\ [][NextNormal]_vars /\ FairNormal

\* C5: under normal operation every item appended to a stream after the
\* cycle in which the stream was first successfully fetched is eventually
\* in a batch handed to the notifier.
C5_EventuallyReported ==
    \A s \in Streams : \A i \in 1..MaxId :
        (seenOk[s] \in 0..MaxId /\ seenOk[s] < i /\ i <= stream[s])
            ~> (i \in handed[s])

(***************************************************************************)
(* Detection and notification history: the poller on conversation 1, with  *)
(* any answer of the Reader (true, stale or short page, exception) and the *)
(* outcomes of v3's second user lookup; no stop, kill or I/O error.  Each  *)
(* detection is recorded in dIn, dOut and emitted, each logged batch in    *)
(* handed.                                                                 *)
(***************************************************************************)
CheckRecorded == \E s \in 1..StoreStreams : CheckOf(s, Fetches(s), FALSE, TRUE)
AppendTrack == \E s \in 1..StoreStreams : AppendOf(s, Unbudgeted)

NextTrack ==
    \/ RunStartOk \/ LoadState \/ LoginOk
    \/ EnumerateStore \/ CheckRecorded
    \/ NotifyTracked \/ NotifyNoUser \/ NotifyRaise \/ Delay
    \/ SaveOpenOk \/ SaveWriteOk \/ Sleep \/ AppendTrack

SpecTrack == Init /\ [][NextTrack]_vars

\* C24: whenever check_user_messages has returned a non-empty list for a
\* stream, the next step of poll_once logs every item of that list and goes on
\* to the inter-stream delay, so that all of them are written before the next
\* stream is fetched (all four variants).
C24_RenderedInCycle ==
    [][(pc = "notify" /\ pc' # "notify")
          => (pc' = "delay" /\ IdsOf(newMsgs) \subseteq handed'[users[idx]])]_vars

\* C25: whenever a save_state write completes and stores a checkpoint for a
\* stream, every item that detection has returned as new for that stream up
\* to then, and that the stored checkpoint covers, has been handed to the
\* notifier (so that a kill can only repeat a detected item, never lose it).
C25_HandedBeforeSaved ==
    [][(pc = "save_write" /\ file'.st = "full")
          => \A s \in Streams :
                 UserKey(s) \in DOMAIN file'.data =>
                     \A i \in emitted[s].new :
                         i <= IdOf(file'.data[UserKey(s)]) => i \in handed[s]]_vars

(***************************************************************************)
(* Repeated walks: message_poller.py or message_poller_v2.py watching the  *)
(* single conversation 1, with any page the Reader can return (true, stale *)
(* or short) or an exception; no stop, kill or I/O error.                  *)
(***************************************************************************)
EnumerateFirst == EnumerateOf({<<1>>, <<>>})
CheckFirst == CheckOf(1, Fetches(1), FALSE, TRUE)
AppendFirst == AppendOf(1, Unbudgeted)

NextWalks ==
    \/ RunStartOk \/ LoadState \/ LoginOk
    \/ EnumerateFirst \/ CheckFirst \/ NotifyTracked \/ Delay
    \/ SaveOpenOk \/ SaveWriteOk \/ Sleep \/ AppendFirst

SpecWalks == InitNormal /\ [][NextWalks]_vars

\* C26: in message_poller.py and message_poller_v2.py a walk that exhausts
\* the page without meeting the checkpoint returns the whole page, oldest
\* first; and a run is reachable in which such a walk returns an item that an
\* earlier exhausted walk had returned (C26_Witness).
C26_ExhaustedEmitsPage ==
    (dOut.done /\ variant \in {"v1", "v2"} /\ ~dIn.fetched.raised
       /\ Exhausted(dIn.info, dIn.user, DPage)) =>
        /\ dOut.new = [j \in 1..Len(DPage) |-> DPage[Len(DPage) - j + 1]]
        /\ \A s \in Streams : dIn.user = UserKey(s) => IdsOf(DPage) \subseteq emitted[s].new

C26_Witness ==
    /\ variant \in {"v1", "v2"} /\ pc = "notify" /\ emitted[1].again
    /\ Exhausted(dIn.info, dIn.user, DPage)
    /\ IdsOf(newMsgs) = IdsOf(DPage)
    /\ IdsOf(newMsgs) \cap handed[1] # {}

(***************************************************************************)
(* Restarts between cycles: any variant watching the single conversation   *)
(* 1, the Reader returning the true newest page of the append-only stream, *)
(* no I/O error; the process is killed or stopped only during the sleep    *)
(* that follows a cycle which ran to its save_state, and is then started   *)
(* again on the state file.                                                *)
(***************************************************************************)
CheckFirstFresh == CheckOf(1, FreshFetch(1), FALSE, TRUE)

AppendLong ==
    /\ stream[1] < RestartMaxId
    /\ stream' = [stream EXCEPT ![1] = @ + 1]
    /\ UNCHANGED <<variant, file, mem, pc, users, idx, newMsgs, saveBy, saveOk,
                   stopObserved, cyc, hist, det>>

KillBetweenCycles == pc = "sleep" /\ cyc.saves = 1 /\ saveOk /\ Crash
StopBetweenCycles == pc = "sleep" /\ cyc.saves = 1 /\ saveOk /\ Stop

NextRestart ==
    \/ RunStartOk \/ LoadState \/ LoginOk
    \/ EnumerateFirst \/ CheckFirstFresh
    \/ NotifyTracked \/ NotifyNoUser \/ NotifyRaise \/ Delay
    \/ SaveOpenOk \/ SaveWriteOk \/ Sleep
    \/ KillBetweenCycles \/ StopBetweenCycles \/ Restart \/ AppendLong

SpecRestart == Init /\ [][NextRestart]_vars

\* C27: with the true newest page at every fetch and restarts only between
\* completed cycles, no call of check_user_messages returns as new an item
\* that an earlier call (of this or of an earlier process) returned as new.
C27_NoDuplicateEmission ==
    [][(pc = "check" /\ pc' # "check")
          => IdsOf(newMsgs') \cap emitted[users[idx]].new = {}]_vars

C27_Witness ==
    /\ pc = "notify" /\ saveBy = "none" /\ file.st = "full"
    /\ newMsgs # <<>>
    /\ Exhausted(dIn.info, dIn.user, DPage)
    /\ emitted[1].new \ IdsOf(newMsgs) # {}
    /\ handed[1] = emitted[1].new \ IdsOf(newMsgs)

====
